---- MODULE Spec2Model ----
(***************************************************************************)
(* A model of src/main.go: the one-shot pipeline that fetches Vault        *)
(* metrics, drops the lines holding "NaN", splits the payload in two when  *)
(* it is longer than 5000 bytes, and asks an LLM endpoint to narrate each  *)
(* chunk.                                                                  *)
(*                                                                         *)
(* Byte slices are sequences of byte values; Go strings that hold a        *)
(* narration or a response body are TLA+ strings.                          *)
(***************************************************************************)
EXTENDS Integers, Sequences, FiniteSets, TLC

VARIABLES
    env,              \* the process environment (read-only)
    pc,               \* position of main
    k,                \* index of the chunk being narrated (0: none yet)
    metrics,          \* main's metrics
    filteredMetrics,  \* main's filteredMetrics
    chunks,           \* <<filteredMetrics>> or <<firstHalf, secondHalf>>
    analyses,         \* the narrations returned so far, in call order
    calls,            \* the chunks analyzeWithLLM was invoked with, in order
    requests,         \* the HTTP requests put on the wire, in order
    replies,          \* the responses to the narration requests, in order
    stdout,           \* lines printed on standard output
    stderr,           \* lines printed on standard error
    exitCode          \* -1 while running, else the process's exit status

vars == <<env, pc, k, metrics, filteredMetrics, chunks, analyses, calls,
          requests, replies, stdout, stderr, exitCode>>

----------------------------------------------------------------------------
(* Bounds of the model. *)

\* Most lines a generated metrics payload has.
MaxLines == 3

\* Most entries a generated "choices" array has.
MaxChoices == 2

----------------------------------------------------------------------------
(* Byte-slice helpers (package bytes). *)

\* []byte("\n")
Newline == <<10>>

\* []byte("NaN")
NaN == <<78, 97, 78>>

\* bytes.Index: the first position where sep occurs in s, 0 when none.
Index(s, sep) ==
    LET hits == {i \in 1..(Len(s) - Len(sep) + 1) :
                    SubSeq(s, i, i + Len(sep) - 1) = sep}
    IN IF hits = {} THEN 0
       ELSE CHOOSE i \in hits : \A j \in hits : i <= j

\* bytes.Contains
Contains(s, sub) == Index(s, sub) # 0

\* bytes.Split(s, sep) for a non-empty sep: cut at every occurrence of sep;
\* a slice without sep (the empty slice included) gives one element.
RECURSIVE Split(_, _)
Split(s, sep) ==
    LET i == Index(s, sep)
    IN IF i = 0 THEN <<s>>
       ELSE <<SubSeq(s, 1, i - 1)>> \o Split(SubSeq(s, i + Len(sep), Len(s)), sep)

\* bytes.Join
RECURSIVE Join(_, _)
Join(ss, sep) ==
    IF Len(ss) = 0 THEN <<>>
    ELSE IF Len(ss) = 1 THEN ss[1]
    ELSE ss[1] \o sep \o Join(Tail(ss), sep)

----------------------------------------------------------------------------
(* The sanitizer. *)

\* A test that also takes "nan" for the marker.
KeepsLineAnyCase(line) == ~Contains(line, NaN) /\ ~Contains(line, <<110, 97, 110>>)

\* The test of filterNaNMetrics' loop: the line is kept.
KeepsLine(line) == ~Contains(line, NaN)

\* The loop of filterNaNMetrics: append the kept lines in order.
RECURSIVE FilterLines(_)
FilterLines(lines) ==
    IF Len(lines) = 0 THEN <<>>
    ELSE (IF KeepsLine(Head(lines)) THEN <<Head(lines)>> ELSE <<>>)
         \o FilterLines(Tail(lines))

filterNaNMetrics(m) == Join(FilterLines(Split(m, Newline)), Newline)

----------------------------------------------------------------------------
(* The partitioner (main, lines 134-140 and the else branch). *)

Threshold == 5000

\* The middle rounded up.
MidCeil(n) == (n + 1) \div 2

\* mid := n / 2
Mid(n) == n \div 2

\* lines[:mid] and lines[mid:], each joined again.
FirstHalf(lines) == Join(SubSeq(lines, 1, Mid(Len(lines))), Newline)

SecondHalf(lines) == Join(SubSeq(lines, Mid(Len(lines)) + 1, Len(lines)), Newline)

\* A test that already splits at the threshold.
MustSplitAtThreshold(f) == Len(f) >= Threshold

\* The test that sends main into the two-chunk branch.
MustSplit(f) == Len(f) > Threshold

\* The chunks main narrates, in the order it narrates them.
Partition(f) ==
    IF MustSplit(f)
    THEN LET lines == Split(f, Newline)
         IN <<FirstHalf(lines), SecondHalf(lines)>>
    ELSE <<f>>

----------------------------------------------------------------------------
(* The narrator's reading of a response (analyzeWithLLM, lines 97-121).     *)
(*                                                                         *)
(* A response body is its text (raw) together with the JSON document that *)
(* text denotes (json); raw of a JSON document is its rendering, so the    *)
(* JSON syntax itself is not modelled, encoding/json's mapping of a        *)
(* document onto llmResp is.  A document, a "choices" member, an element   *)
(* of the array and a string member each carry the JSON type found there   *)
(* (t), which decides what Unmarshal does with it.                         *)

StatusOK == 200

Quoted(s) == "\"" \o s \o "\""

RECURSIVE JoinStr(_, _)
JoinStr(ss, sep) ==
    IF Len(ss) = 0 THEN ""
    ELSE IF Len(ss) = 1 THEN ss[1]
    ELSE ss[1] \o sep \o JoinStr(Tail(ss), sep)

\* A string member: absent, null, a string, or a number.
Member(t, s) == [t |-> t, s |-> s]

Absent == Member("absent", "")

RenderMember(name, m) ==
    CASE m.t = "absent" -> <<>>
      [] m.t = "null"   -> <<Quoted(name) \o ":null">>
      [] m.t = "string" -> <<Quoted(name) \o ":" \o Quoted(m.s)>>
      [] m.t = "number" -> <<Quoted(name) \o ":7">>

\* An element of "choices": an object with a "text" member, null, or a string.
Choice(t, text) == [t |-> t, text |-> text]

RenderChoice(c) ==
    CASE c.t = "object" -> "{" \o JoinStr(RenderMember("text", c.text), ",") \o "}"
      [] c.t = "null"   -> "null"
      [] c.t = "string" -> Quoted("first")

\* The "choices" member: absent, null, an array, or a string.
ChoicesMember(t, elems) == [t |-> t, elems |-> elems]

RenderChoices(c) ==
    CASE c.t = "absent" -> <<>>
      [] c.t = "null"   -> <<Quoted("choices") \o ":null">>
      [] c.t = "array"  ->
           <<Quoted("choices") \o ":["
             \o JoinStr([i \in 1..Len(c.elems) |-> RenderChoice(c.elems[i])], ",")
             \o "]">>
      [] c.t = "string" -> <<Quoted("choices") \o ":" \o Quoted("none")>>

\* A document: an object, null, an array, or a string at the top level.
Document(t, choices, result) == [t |-> t, choices |-> choices, result |-> result]

RenderDocument(d) ==
    CASE d.t = "object" ->
           "{" \o JoinStr(RenderChoices(d.choices) \o RenderMember("result", d.result), ",")
               \o "}"
      [] d.t = "null"   -> "null"
      [] d.t = "array"  -> "[1]"
      [] d.t = "string" -> Quoted("ok")

\* What a text that is not JSON denotes.
Invalid == Document("invalid", ChoicesMember("absent", <<>>), Absent)

JSONBody(d) == [raw |-> RenderDocument(d), json |-> d]

TextBody(s) == [raw |-> s, json |-> Invalid]

\* A string member stored into a Go string: null and absent leave it "",
\* a string sets it, anything else is an UnmarshalTypeError.
StringOf(m) == IF m.t = "string" THEN m.s ELSE ""

StringMismatch(m) == m.t \notin {"absent", "null", "string"}

\* An element stored into struct{Text string}: null leaves the zero value.
ChoiceOf(c) == [Text |-> IF c.t = "object" THEN StringOf(c.text) ELSE ""]

ChoiceMismatch(c) ==
    \/ c.t \notin {"object", "null"}
    \/ c.t = "object" /\ StringMismatch(c.text)

ChoicesOf(c) ==
    IF c.t = "array" THEN [i \in 1..Len(c.elems) |-> ChoiceOf(c.elems[i])] ELSE <<>>

ChoicesMismatch(c) ==
    \/ c.t \notin {"absent", "null", "array"}
    \/ c.t = "array" /\ \E i \in 1..Len(c.elems) : ChoiceMismatch(c.elems[i])

\* json.Unmarshal(result, &llmResp): err and the struct it leaves behind.
\* A syntax error stores nothing; a type mismatch is reported after the
\* members that do fit have been stored.
Unmarshal(body) ==
    LET d == body.json
    IN CASE d.t = "invalid" -> [err |-> TRUE, Choices |-> <<>>, Result |-> ""]
         [] d.t = "null"    -> [err |-> FALSE, Choices |-> <<>>, Result |-> ""]
         [] d.t = "object"  ->
              [err     |-> ChoicesMismatch(d.choices) \/ StringMismatch(d.result),
               Choices |-> ChoicesOf(d.choices),
               Result  |-> StringOf(d.result)]
         [] OTHER           -> [err |-> TRUE, Choices |-> <<>>, Result |-> ""]

\* The test of line 113.
UsesFirstChoice(llmResp) ==
    Len(llmResp.Choices) > 0 /\ llmResp.Choices[1].Text # ""

\* A reading that prefers the result member to the choices.
ExtractNarrationResultFirst(body) ==
    LET llmResp == Unmarshal(body)
    IN IF ~llmResp.err /\ llmResp.Result # "" THEN llmResp.Result
       ELSE IF ~llmResp.err /\ UsesFirstChoice(llmResp) THEN llmResp.Choices[1].Text
       ELSE body.raw

\* A reading that looks through the choices for the first text that is not "".
ExtractNarrationAnyChoice(body) ==
    LET llmResp == Unmarshal(body)
        full    == {i \in 1..Len(llmResp.Choices) : llmResp.Choices[i].Text # ""}
    IN IF ~llmResp.err /\ full # {}
       THEN llmResp.Choices[CHOOSE i \in full : \A j \in full : i <= j].Text
       ELSE IF ~llmResp.err /\ llmResp.Result # "" THEN llmResp.Result
       ELSE body.raw

\* Lines 111-121: the narration taken from a 200 response's body.
ExtractNarration(body) ==
    LET llmResp == Unmarshal(body)
    IN IF ~llmResp.err /\ UsesFirstChoice(llmResp) THEN llmResp.Choices[1].Text
       ELSE IF ~llmResp.err /\ llmResp.Result # "" THEN llmResp.Result
       ELSE body.raw

\* An error value: what failed, and for a non-200 response its status and body.
Error(kind, status, body) == [kind |-> kind, status |-> status, body |-> body]

NoError == Error("", 0, "")

\* A response as client.Do hands it over: a transport failure, or a status
\* and a body.
Response(failed, status, body) == [failed |-> failed, status |-> status, body |-> body]

\* A test that takes every status below 300 for a success.
IsBelow300(status) == status < 300

\* The test of line 99.
IsOK(status) == status = StatusOK

\* Lines 93-121: what analyzeWithLLM returns for a response.
NarrationOf(resp) ==
    IF resp.failed THEN [text |-> "", err |-> Error("transport", 0, "")]
    ELSE IF ~IsOK(resp.status)
    THEN [text |-> "", err |-> Error("status", resp.status, resp.body.raw)]
    ELSE [text |-> ExtractNarration(resp.body), err |-> NoError]

----------------------------------------------------------------------------
(* The environment and the wire. *)

\* A URL http.NewRequest cannot parse.
BadURL == "%zz"

MetricsPath == "/v1/sys/metrics?format=prometheus"

\* getVaultMetricsURL
getVaultMetricsURL(e) ==
    (IF e.VAULT_ADDR = "" THEN "http://127.0.0.1:8200" ELSE e.VAULT_ADDR) \o MetricsPath

\* http.NewRequest's err == nil: the URL parses.
NewRequestOK(url) == url \notin {BadURL, BadURL \o MetricsPath}

\* The environments a run can start in: each variable unset or set, and each
\* address possibly one that does not parse.
Environments ==
    [VAULT_ADDR  : {"", "http://vault:8200", BadURL},
     VAULT_TOKEN : {"", "s.vault"},
     LLM_URL     : {"", "http://llm/v1/completions", BadURL},
     LLM_TOKEN   : {"", "sk-llm"}]

\* An environment with everything set.
FullEnv ==
    [VAULT_ADDR |-> "http://vault:8200", VAULT_TOKEN |-> "s.vault",
     LLM_URL |-> "http://llm/v1/completions", LLM_TOKEN |-> "sk-llm"]

\* The GET of fetchVaultMetrics (lines 35-42).
MetricsRequest(e) ==
    [method |-> "GET", url |-> getVaultMetricsURL(e), token |-> e.VAULT_TOKEN,
     metrics |-> <<>>]

\* The POST of analyzeWithLLM (lines 62-92): the prompt wraps the chunk verbatim.
NarrationRequest(e, chunk) ==
    [method |-> "POST", url |-> e.LLM_URL, token |-> e.LLM_TOKEN, metrics |-> chunk]

\* A printed line: which statement printed it, its fixed text, its arguments.
Printed(kind, text, args) == [kind |-> kind, text |-> text, args |-> args]

FetchingLine == Printed("progress", "Fetching Vault metrics...", <<>>)

LenLine(f) == Printed("progress", "len(filteredMetrics):", <<Len(f)>>)

\* The labels main uses for chunk i of n: the progress line, the error line
\* and the header of the result.
ProgressText(i, n) ==
    IF n = 1 THEN "analysis data for all metrics..."
    ELSE IF i = 1 THEN "analysis data for first half..."
    ELSE "analysis data for second half..."

ErrorText(i, n) ==
    IF n = 1 THEN "Error analyzing metrics with LLM:"
    ELSE IF i = 1 THEN "Error analyzing first half with LLM:"
    ELSE "Error analyzing second half with LLM:"

HeaderText(i, n) ==
    IF n = 1 THEN "LLM Analysis Result:"
    ELSE IF i = 1 THEN "LLM Analysis Result (First Half):"
    ELSE "\nLLM Analysis Result (Second Half):"

\* The narrations under the headers in the opposite order.
RECURSIVE ResultLinesSwapped(_, _, _)
ResultLinesSwapped(as, i, n) ==
    IF i > n THEN <<>>
    ELSE <<Printed("header", HeaderText(i, n), <<>>),
           Printed("narration", as[n + 1 - i], <<>>)>> \o ResultLinesSwapped(as, i + 1, n)

\* Lines 156-159 and 167-168: every narration under its header, in order.
RECURSIVE ResultLines(_, _, _)
ResultLines(as, i, n) ==
    IF i > n THEN <<>>
    ELSE <<Printed("header", HeaderText(i, n), <<>>),
           Printed("narration", as[i], <<>>)>> \o ResultLines(as, i + 1, n)

----------------------------------------------------------------------------
(* The run. *)

Init ==
    /\ env \in Environments
    /\ pc = "Start"
    /\ k = 0
    /\ metrics = <<>>
    /\ filteredMetrics = <<>>
    /\ chunks = <<>>
    /\ analyses = <<>>
    /\ calls = <<>>
    /\ requests = <<>>
    /\ replies = <<>>
    /\ stdout = <<>>
    /\ stderr = <<>>
    /\ exitCode = -1

\* os.Exit(1) after main printed err under the given text.
FailWith(out, text, err) ==
    /\ stdout' = out \o <<Printed("error", text, <<err>>)>>
    /\ exitCode' = 1
    /\ pc' = "Failed"

\* main line 125 up to client.Do in fetchVaultMetrics (lines 30-42); when the
\* request is never sent, main's lines 126-129 follow at once.
FetchIssue ==
    /\ pc = "Start"
    /\ IF env.VAULT_TOKEN = ""
       THEN /\ FailWith(stdout \o <<FetchingLine>>, "Error fetching metrics:",
                        Error("VAULT_TOKEN unset", 0, ""))
            /\ UNCHANGED requests
       ELSE IF ~NewRequestOK(getVaultMetricsURL(env))
       THEN /\ FailWith(stdout \o <<FetchingLine>>, "Error fetching metrics:",
                        Error("url", 0, ""))
            /\ UNCHANGED requests
       ELSE /\ requests' = Append(requests, MetricsRequest(env))
            /\ pc' = "Fetching"
            /\ UNCHANGED <<stdout, exitCode>>
    /\ UNCHANGED <<env, k, metrics, filteredMetrics, chunks, analyses, calls, replies,
                   stderr>>

\* fetchVaultMetrics lines 42-47 and main lines 126-130: the GET fails in
\* transport or while its body is read, or returns a body (whatever its status).
FetchReturn(payloads) ==
    /\ pc = "Fetching"
    /\ \/ \E kind \in {"transport", "read"} :
            /\ FailWith(stdout \o <<FetchingLine>>, "Error fetching metrics:",
                        Error(kind, 0, ""))
            /\ UNCHANGED metrics
       \/ \E body \in payloads :
            /\ metrics' = body
            /\ stdout' = Append(stdout, FetchingLine)
            /\ pc' = "Sanitizing"
            /\ UNCHANGED exitCode
    /\ UNCHANGED <<env, k, filteredMetrics, chunks, analyses, calls, requests, replies,
                   stderr>>

\* main lines 132-133.
Sanitize ==
    /\ pc = "Sanitizing"
    /\ filteredMetrics' = filterNaNMetrics(metrics)
    /\ stdout' = Append(stdout, LenLine(filterNaNMetrics(metrics)))
    /\ pc' = "Partitioning"
    /\ UNCHANGED <<env, k, metrics, chunks, analyses, calls, requests, replies, stderr,
                   exitCode>>

\* main lines 134-140, or the else of line 160.
DoPartition ==
    /\ pc = "Partitioning"
    /\ chunks' = Partition(filteredMetrics)
    /\ k' = 1
    /\ pc' = "Narrating"
    /\ UNCHANGED <<env, metrics, filteredMetrics, analyses, calls, requests, replies,
                   stdout, stderr, exitCode>>

\* An order that looks at LLM_TOKEN before it asks for the URL.
RequestOutcomeTokenFirst(e) ==
    IF e.LLM_TOKEN = "" THEN "LLM_TOKEN unset"
    ELSE IF e.LLM_URL = "" THEN "exit"
    ELSE IF ~NewRequestOK(e.LLM_URL) THEN "url"
    ELSE "send"

\* An order without the test of LLM_TOKEN.
RequestOutcomeNoTokenTest(e) ==
    IF e.LLM_URL = "" THEN "exit"
    ELSE IF ~NewRequestOK(e.LLM_URL) THEN "url"
    ELSE "send"

\* analyzeWithLLM lines 80-88, in the order of the code: getLLMAPIURL exits
\* the process when LLM_URL is unset, then http.NewRequest may not parse the
\* URL, then LLM_TOKEN may be unset, else the request is sent.
RequestOutcome(e) ==
    IF e.LLM_URL = "" THEN "exit"
    ELSE IF ~NewRequestOK(e.LLM_URL) THEN "url"
    ELSE IF e.LLM_TOKEN = "" THEN "LLM_TOKEN unset"
    ELSE "send"

LLMURLLine == "LLM_URL environment variable not set"

\* main's progress line and call of analyzeWithLLM for chunk k (lines 142-143,
\* 149-150, 161-162), and analyzeWithLLM up to client.Do (lines 62-92):
\* getLLMAPIURL exits the process by itself, the other failures return to main.
NarrateIssue ==
    /\ pc = "Narrating"
    /\ calls' = Append(calls, chunks[k])
    /\ LET out  == Append(stdout, Printed("progress", ProgressText(k, Len(chunks)), <<>>))
           text == ErrorText(k, Len(chunks))
           todo == RequestOutcome(env)
       IN IF todo = "exit"
          THEN /\ stderr' = Append(stderr, LLMURLLine)
               /\ stdout' = out
               /\ exitCode' = 1
               /\ pc' = "Failed"
               /\ UNCHANGED requests
          ELSE IF todo = "send"
          THEN /\ requests' = Append(requests, NarrationRequest(env, chunks[k]))
               /\ stdout' = out
               /\ pc' = "Awaiting"
               /\ UNCHANGED <<stderr, exitCode>>
          ELSE /\ FailWith(out, text, Error(todo, 0, ""))
               /\ UNCHANGED <<requests, stderr>>
    /\ UNCHANGED <<env, k, metrics, filteredMetrics, chunks, analyses, replies>>

\* A main that reports an error and goes on with what is left.
AfterNarrationGoesOn(r) ==
    /\ analyses' = Append(analyses, r.text)
    /\ IF k < Len(chunks)
       THEN /\ k' = k + 1
            /\ pc' = "Narrating"
            /\ exitCode' = exitCode
            /\ stdout' = IF r.err # NoError
                         THEN Append(stdout, Printed("error", ErrorText(k, Len(chunks)), <<r.err>>))
                         ELSE stdout
       ELSE /\ stdout' = (IF r.err # NoError
                          THEN Append(stdout, Printed("error", ErrorText(k, Len(chunks)), <<r.err>>))
                          ELSE stdout)
                         \o ResultLines(Append(analyses, r.text), 1, Len(chunks))
            /\ exitCode' = IF r.err # NoError THEN 1 ELSE 0
            /\ pc' = IF r.err # NoError THEN "Failed" ELSE "Done"
            /\ UNCHANGED k

\* What main does with analyzeWithLLM's return for chunk k: exit on an error
\* (lines 144-147, 151-154, 163-166), go on to the next chunk, or print every
\* narration after the last one (lines 156-159, 167-168).
AfterNarration(r) ==
    IF r.err # NoError
    THEN /\ FailWith(stdout, ErrorText(k, Len(chunks)), r.err)
         /\ UNCHANGED <<k, analyses>>
    ELSE /\ analyses' = Append(analyses, r.text)
         /\ IF k < Len(chunks)
            THEN /\ k' = k + 1
                 /\ pc' = "Narrating"
                 /\ UNCHANGED <<stdout, exitCode>>
            ELSE /\ stdout' = stdout \o ResultLines(Append(analyses, r.text), 1, Len(chunks))
                 /\ exitCode' = 0
                 /\ pc' = "Done"
                 /\ UNCHANGED k

\* analyzeWithLLM lines 92-121 for the response to chunk k's request, then main.
NarrateReturn(responses) ==
    /\ pc = "Awaiting"
    /\ \E resp \in responses :
          /\ replies' = Append(replies, resp)
          /\ AfterNarration(NarrationOf(resp))
    /\ UNCHANGED <<env, metrics, filteredMetrics, chunks, calls, requests, stderr>>

----------------------------------------------------------------------------
(* The inputs of the run: what the two endpoints may answer. *)

\* n bytes of 'x'.
Pad(n) == [i \in 1..n |-> 120]

\* The non-empty sequences over S of at most n elements.
SeqsUpTo(S, n) == UNION {[1..m -> S] : m \in 1..n}

\* Lines of a metrics payload: "", "a", "NaN", "x NaN", "nan", "Na".
SanitizerLines ==
    {<<>>, <<97>>, NaN, <<120, 32>> \o NaN, <<110, 97, 110>>, <<78, 97>>}

\* Every payload of at most MaxLines such lines.
SanitizerInputs == {Join(ls, Newline) : ls \in SeqsUpTo(SanitizerLines, MaxLines)}

\* Lines without the marker, short and long enough to cross the threshold.
PartitionerLines == {<<>>, <<97>>, Pad(2500), Pad(4999), Pad(5001)}

\* Every sanitized payload of at most MaxLines such lines.
PartitionerInputs == {Join(ls, Newline) : ls \in SeqsUpTo(PartitionerLines, MaxLines)}

\* The payloads of the whole run: short ones, with and without the marker,
\* and ones around the threshold before and after the marker's lines go.
RunPayloads ==
    {<<97>>,
     NaN,
     Join(<<<<97>>, <<120, 32>> \o NaN, <<98>>>>, Newline),
     Pad(5001),
     Join(<<Pad(2500), Pad(2500)>>, Newline),
     Join(<<Pad(4999), <<>>>>, Newline),
     Join(<<Pad(4999), NaN>>, Newline),
     Join(<<Pad(4999), NaN, <<97>>>>, Newline),
     Join(<<Pad(4998), <<97>>, <<>>>>, Newline)}

\* The "text" and "result" members a generated document carries.
TextMembers ==
    {Absent, Member("null", ""), Member("number", ""),
     Member("string", ""), Member("string", "A"), Member("string", "B")}

ResultMembers ==
    {Absent, Member("null", ""), Member("number", ""),
     Member("string", ""), Member("string", "R")}

ChoiceElements ==
    {Choice("object", t) : t \in TextMembers}
        \cup {Choice("null", Absent), Choice("string", Absent)}

ChoicesMembers ==
    {ChoicesMember(t, <<>>) : t \in {"absent", "null", "string", "array"}}
        \cup {ChoicesMember("array", es) : es \in SeqsUpTo(ChoiceElements, MaxChoices)}

Documents ==
    {Document("object", c, r) : c \in ChoicesMembers, r \in ResultMembers}
        \cup {Document(t, ChoicesMember("absent", <<>>), Absent) :
                t \in {"null", "array", "string"}}

\* Bodies that are not JSON: free text, nothing, a document cut short.
TextBodies ==
    {TextBody(s) : s \in {"Vault is healthy.", "", "{\"choices\":[{\"text\":\"A\""}}

Bodies == {JSONBody(d) : d \in Documents} \cup TextBodies

Statuses == {200, 201, 204, 401, 500}

\* Every answer to a narration request.
NarratorResponses ==
    {Response(TRUE, 0, TextBody(""))}
        \cup {Response(FALSE, st, b) : st \in Statuses, b \in Bodies}

\* The answers of the whole run: a transport failure, an error status, and
\* 200 with free text, a choice, a result, and an empty choice beside a result.
RunResponses ==
    {Response(TRUE, 0, TextBody("")),
     Response(FALSE, 500, TextBody("overloaded")),
     Response(FALSE, 200, TextBody("Vault is healthy.")),
     Response(FALSE, 200,
        JSONBody(Document("object",
            ChoicesMember("array", <<Choice("object", Member("string", "A"))>>), Absent))),
     Response(FALSE, 200,
        JSONBody(Document("object", ChoicesMember("absent", <<>>), Member("string", "R")))),
     Response(FALSE, 200,
        JSONBody(Document("object",
            ChoicesMember("array", <<Choice("object", Member("string", ""))>>),
            Member("string", "R"))))}

----------------------------------------------------------------------------
(* The specifications. *)

\* The whole run, from process start.
Next ==
    \/ FetchIssue
    \/ FetchReturn(RunPayloads)
    \/ Sanitize
    \/ DoPartition
    \/ NarrateIssue
    \/ NarrateReturn(RunResponses)

Spec == Init /\ [][Next]_vars

\* The state of a run in a full environment whose fetch returned m.
Fetched(m) ==
    /\ env = FullEnv
    /\ metrics = m
    /\ stderr = <<>>
    /\ exitCode = -1
    /\ analyses = <<>>
    /\ replies = <<>>

\* The sanitizer on every payload: the run at line 132.
InitSanitizer ==
    /\ \E m \in SanitizerInputs : Fetched(m)
    /\ pc = "Sanitizing"
    /\ requests = <<MetricsRequest(FullEnv)>>
    /\ stdout = <<FetchingLine>>
    /\ k = 0
    /\ filteredMetrics = <<>>
    /\ chunks = <<>>
    /\ calls = <<>>

SpecSanitizer == InitSanitizer /\ [][Sanitize]_vars

\* The partitioner on every sanitized payload f: the run at line 134.
InitPartitioner ==
    /\ \E f \in PartitionerInputs :
          /\ Fetched(f)
          /\ filteredMetrics = filterNaNMetrics(f)
          /\ stdout = <<FetchingLine, LenLine(filterNaNMetrics(f))>>
    /\ pc = "Partitioning"
    /\ requests = <<MetricsRequest(FullEnv)>>
    /\ k = 0
    /\ chunks = <<>>
    /\ calls = <<>>

SpecPartitioner == InitPartitioner /\ [][DoPartition]_vars

\* The narrator on every response: the run inside client.Do of line 92, for
\* the only chunk of a short payload.
InitNarrator ==
    /\ \E f \in {<<97>>, <<97, 10, 98>>} :
          /\ Fetched(f)
          /\ filteredMetrics = filterNaNMetrics(f)
          /\ chunks = Partition(filterNaNMetrics(f))
          /\ calls = Partition(filterNaNMetrics(f))
          /\ requests = <<MetricsRequest(FullEnv),
                          NarrationRequest(FullEnv, Partition(filterNaNMetrics(f))[1])>>
          /\ stdout = <<FetchingLine, LenLine(filterNaNMetrics(f)),
                        Printed("progress", ProgressText(1, 1), <<>>)>>
    /\ pc = "Awaiting"
    /\ k = 1

SpecNarrator == InitNarrator /\ [][NarrateReturn(NarratorResponses)]_vars

----------------------------------------------------------------------------
(* Vocabulary of the properties. *)

\* main is past line 133: filteredMetrics holds the sanitizer's output.
Sanitized == \E i \in DOMAIN stdout : stdout[i].text = "len(filteredMetrics):"

\* main is past the partitioning: chunks holds what will be narrated.
Partitioned == chunks # <<>>

\* The line holds the bytes 'N', 'a', 'N' next to each other.
HasMarker(line) ==
    \E i \in 1..(Len(line) - 2) : line[i] = 78 /\ line[i + 1] = 97 /\ line[i + 2] = 78

\* The number of lines of a payload: one more than its newline bytes.
LineCount(m) == 1 + Cardinality({i \in 1..Len(m) : m[i] = 10})

\* f lists the elements of the set K of indices in increasing order.
Increasing(f, K) ==
    /\ \A i \in DOMAIN f : \A j \in DOMAIN f : i < j => f[i] < f[j]
    /\ {f[i] : i \in DOMAIN f} = K

----------------------------------------------------------------------------
(* The sanitizer. *)

\* C5: the sanitizer's output lines are exactly the input lines without the
\* case-sensitive marker "NaN", in their original order: no kept line holds
\* the marker, no marker-free line is dropped, the output has no more lines
\* than the input, and when every line is dropped the output is empty.
C5_SanitizerKeepsExactlyMarkerFreeLines ==
    Sanitized =>
        LET in   == Split(metrics, Newline)
            out  == Split(filteredMetrics, Newline)
            kept == {i \in 1..Len(in) : ~HasMarker(in[i])}
        IN /\ Len(out) <= Len(in)
           /\ LineCount(filteredMetrics) <= LineCount(metrics)
           /\ IF kept = {}
              THEN filteredMetrics = <<>>
              ELSE /\ Len(out) = Cardinality(kept)
                   /\ \A j \in 1..Len(out) : ~HasMarker(out[j])
                   /\ \E f \in [1..Len(out) -> kept] :
                         /\ Increasing(f, kept)
                         /\ \A j \in 1..Len(out) : out[j] = in[f[j]]

\* A payload of three lines whose middle line is dropped and whose "nan" line
\* is kept.
C5_Witness ==
    /\ pc = "Partitioning"
    /\ metrics = Join(<<<<97>>, <<120, 32>> \o NaN, <<110, 97, 110>>>>, Newline)
    /\ filteredMetrics = Join(<<<<97>>, <<110, 97, 110>>>>, Newline)

----------------------------------------------------------------------------
(* The partitioner. *)

\* C1 as stated: at most 5000 bytes give one chunk equal to the payload, more
\* give two chunks whose concatenation is the payload byte for byte.
C1_ChunksConcatenateToPayload ==
    Partitioned =>
        IF Len(filteredMetrics) <= 5000
        THEN chunks = <<filteredMetrics>>
        ELSE Len(chunks) = 2 /\ chunks[1] \o chunks[2] = filteredMetrics

\* C1 amended: at most 5000 bytes give one chunk equal to the payload; more
\* give two chunks that reconstruct the payload when joined by the line
\* separator the split removed between them, and a payload of one line gives
\* an empty first chunk and the payload itself as second chunk.
C1_ChunksJoinToPayload ==
    Partitioned =>
        IF Len(filteredMetrics) <= 5000
        THEN chunks = <<filteredMetrics>>
        ELSE /\ Len(chunks) = 2
             /\ IF LineCount(filteredMetrics) = 1
                THEN chunks[1] = <<>> /\ chunks[2] = filteredMetrics
                ELSE chunks[1] \o <<10>> \o chunks[2] = filteredMetrics

\* A payload of two lines and 5001 bytes, split.
C1_Witness ==
    /\ pc = "Narrating"
    /\ Len(filteredMetrics) = 5001
    /\ LineCount(filteredMetrics) = 2
    /\ Len(chunks) = 2

\* C8: a split payload of N lines gives the lines [0, floor(N/2)) as first
\* chunk and the lines [floor(N/2), N) as second chunk, N = 1 included: the
\* first chunk has floor(N/2) lines, and the chunks are disjoint, contiguous
\* and cover every line in order.
C8_SplitAtHalfOfLines ==
    (Partitioned /\ Len(chunks) = 2) =>
        LET lines == Split(filteredMetrics, Newline)
            N     == Len(lines)
            m     == IF chunks[1] = <<>> /\ N = 1 THEN 0
                     ELSE Len(Split(chunks[1], Newline))
        IN /\ 2 * m <= N /\ N < 2 * m + 2
           /\ m > 0 => Split(chunks[1], Newline) = SubSeq(lines, 1, m)
           /\ Split(chunks[2], Newline) = SubSeq(lines, m + 1, N)

\* A payload of three lines split into one line and two.
C8_Witness ==
    /\ pc = "Narrating"
    /\ Len(chunks) = 2
    /\ LineCount(filteredMetrics) = 3
    /\ LineCount(chunks[1]) = 1
    /\ LineCount(chunks[2]) = 2
    /\ Len(chunks[1]) > 0

----------------------------------------------------------------------------
(* The narrator. *)

\* The i-th narration call returned a string: it is analyses[i].
Narrated(i) == i \in DOMAIN replies /\ i \in DOMAIN analyses

\* The i-th narration call returned the error e: main printed it and exited.
NarrationFailedWith(i, e) ==
    /\ i = Len(replies)
    /\ Len(analyses) = i - 1
    /\ pc = "Failed"
    /\ exitCode = 1
    /\ stdout[Len(stdout)] = Printed("error", ErrorText(i, Len(chunks)), <<e>>)

\* The text of the first entry of the decoded choices, "" when there is none.
FirstChoiceText(u) == IF Len(u.Choices) = 0 THEN "" ELSE u.Choices[1].Text

\* C3: for a response with success status the result follows a fixed
\* priority: the first choice's text when the body decodes and that text is
\* not empty (whatever the result member); the result member when the body
\* decodes with no choices, or with a first choice whose text is empty, and
\* a non-empty result; the raw body verbatim when the body does not decode
\* or decodes with neither of the two.
C3_NarrationPriority ==
    \A i \in DOMAIN replies :
        (~replies[i].failed /\ replies[i].status = 200) =>
            LET b == replies[i].body
                u == Unmarshal(b)
            IN /\ Narrated(i)
               /\ (~u.err /\ FirstChoiceText(u) # "")
                    => analyses[i] = FirstChoiceText(u)
               /\ (~u.err /\ FirstChoiceText(u) = "" /\ u.Result # "")
                    => analyses[i] = u.Result
               /\ (u.err \/ (FirstChoiceText(u) = "" /\ u.Result = ""))
                    => analyses[i] = b.raw

\* A 200 response carrying both a first choice "A" and a result "R" was
\* narrated as "A".
C3_Witness ==
    /\ pc = "Done"
    /\ Len(replies) = 1
    /\ replies[1].status = 200
    /\ replies[1].body.raw = "{\"choices\":[{\"text\":\"A\"}],\"result\":\"R\"}"
    /\ analyses = <<"A">>

\* C4: a response whose status is not the success status (200, the only one
\* the code accepts) makes the call return an error carrying the status and
\* the raw body, which ends the run in Failed; a response with the success
\* status makes the call return a string and no error whatever the body is,
\* a body that does not parse included, and does not move the run to Failed.
C4_ErrorIffNotSuccessStatus ==
    \A i \in DOMAIN replies :
        LET r == replies[i]
        IN ~r.failed =>
            IF r.status # 200
            THEN NarrationFailedWith(i, Error("status", r.status, r.body.raw))
            ELSE /\ Narrated(i)
                 /\ i = Len(replies) => pc # "Failed" /\ exitCode # 1

\* A 200 response whose body is not JSON was narrated as that body and the
\* run is Done.
C4_Witness ==
    /\ pc = "Done"
    /\ Len(replies) = 1
    /\ replies[1].status = 200
    /\ Unmarshal(replies[1].body).err
    /\ replies[1].body.raw = "{\"choices\":[{\"text\":\"A\""
    /\ analyses = <<replies[1].body.raw>>

\* The indices of the decoded choices whose text is not empty.
NonEmptyChoices(u) == {j \in 1..Len(u.Choices) : u.Choices[j].Text # ""}

\* C10 as stated: when the body of a success response decodes, the result is
\* the text of the first choice in the list whose text is not empty, whenever
\* there is one; the result member is used only when there is none.
C10_FirstNonEmptyChoiceAnywhere ==
    \A i \in DOMAIN replies :
        (~replies[i].failed /\ replies[i].status = 200) =>
            LET u    == Unmarshal(replies[i].body)
                full == NonEmptyChoices(u)
            IN ~u.err =>
                /\ Narrated(i)
                /\ IF full # {}
                   THEN analyses[i] = u.Choices[CHOOSE j \in full : \A l \in full : j <= l].Text
                   ELSE u.Result # "" => analyses[i] = u.Result

\* C10 amended: when the body of a success response decodes, only the choice
\* at index 0 is looked at: its text is the result when it is not empty;
\* otherwise, later choices with a text notwithstanding, the result member is
\* the result when it is not empty, and else the raw body is.
C10_OnlyChoiceZero ==
    \A i \in DOMAIN replies :
        (~replies[i].failed /\ replies[i].status = 200) =>
            LET b == replies[i].body
                u == Unmarshal(b)
            IN ~u.err =>
                /\ Narrated(i)
                /\ analyses[i] =
                     IF 1 \in NonEmptyChoices(u) THEN u.Choices[1].Text
                     ELSE IF u.Result # "" THEN u.Result
                     ELSE b.raw

\* A 200 response whose choice 0 is empty, whose choice 1 is "B" and whose
\* result is "R" was narrated as "R".
C10_Witness ==
    /\ pc = "Done"
    /\ Len(replies) = 1
    /\ replies[1].status = 200
    /\ replies[1].body.raw = "{\"choices\":[{\"text\":\"\"},{\"text\":\"B\"}],\"result\":\"R\"}"
    /\ analyses = <<"R">>

----------------------------------------------------------------------------
(* The run as a whole. *)

\* The narration requests sent so far.
Posts == SelectSeq(requests, LAMBDA q : q.method = "POST")

\* The lines of standard output printed by the given kind of statement.
Lines(kind) == SelectSeq(stdout, LAMBDA l : l.kind = kind)

\* The failures reported so far, on either stream.
Reported == Len(Lines("error")) + Len(stderr)

\* The run ended in Failed while chunk i was being narrated.
FailedNarrating(i) == pc = "Failed" /\ Partitioned /\ k = i

\* The failure of chunk i's narration is what the run reported.
ReportsNarrationFailure(i) ==
    \/ stderr = <<LLMURLLine>> /\ Lines("error") = <<>>
    \/ /\ stderr = <<>>
       /\ Len(Lines("error")) = 1
       /\ Lines("error")[1].text = ErrorText(i, Len(chunks))

\* C2, in every state: a run that fails while narrating a chunk ends in
\* Failed having printed no narration; when it is the first of two chunks
\* that fails, analyzeWithLLM was called once, no request for the second
\* chunk is on the wire, and the one failure reported is the first chunk's.
FailFast ==
    /\ Lines("narration") # <<>> => pc = "Done"
    /\ \A i \in 1..2 :
          FailedNarrating(i) =>
              /\ exitCode = 1
              /\ Lines("narration") = <<>> /\ Lines("header") = <<>>
              /\ Reported = 1
              /\ ReportsNarrationFailure(i)
              /\ calls = SubSeq(chunks, 1, i)
              /\ Len(Posts) <= i
    /\ (FailedNarrating(1) /\ Len(chunks) = 2) =>
          /\ Posts \in {<<>>, <<NarrationRequest(env, chunks[1])>>}
          /\ Len(replies) = Len(Posts)

\* C2: fail-fast with no partial output: when the narration of the first of
\* two chunks fails, the second narration is never issued and only the first
\* failure is reported; whenever a narration fails, the run ends in Failed
\* without the narration text of any chunk printed.  A failed run takes no
\* further step.
C2_FailFastNoPartialOutput == [][pc # "Failed"]_vars /\ []FailFast

\* The first of two chunks was answered with an error status.
C2_Witness ==
    /\ FailedNarrating(1)
    /\ Len(chunks) = 2
    /\ Len(replies) = 1
    /\ replies[1].status = 500

\* The run reported the failure of the metrics fetch.
ReportsFetchFailure ==
    /\ stderr = <<>>
    /\ Lines("error") = <<stdout[Len(stdout)]>>
    /\ stdout[Len(stdout)].text = "Error fetching metrics:"

\* C6 as stated: with LLM_URL unset the check is eager: no metrics fetch is
\* ever issued, and the run fails with that configuration error whether or
\* not the fetch would fail.
C6_EagerURLCheck ==
    env.LLM_URL = "" =>
        /\ requests = <<>>
        /\ pc = "Failed" => stderr = <<LLMURLLine>>

\* C6 amended: with LLM_URL unset the run always ends in Failed and never
\* sends a narration request, but the check is lazy: it is made by the first
\* narration call, after the metrics fetch was issued and answered; a run
\* that gets there fails with the configuration error (and nothing else
\* reported), a run whose fetch fails reports the fetch failure instead.
C6_LazyURLCheck ==
    env.LLM_URL = "" =>
        /\ Posts = <<>> /\ replies = <<>>
        /\ pc \notin {"Awaiting", "Done"}
        /\ stderr # <<>> =>
              /\ FailedNarrating(1)
              /\ requests = <<MetricsRequest(env)>>
              /\ calls = <<chunks[1]>>
        /\ pc = "Failed" =>
              /\ exitCode = 1
              /\ IF Partitioned
                 THEN stderr = <<LLMURLLine>> /\ Lines("error") = <<>>
                 ELSE ReportsFetchFailure

\* With LLM_URL unset, the fetch was sent and answered and the first
\* narration call ended the run.
C6_Witness ==
    /\ env.LLM_URL = ""
    /\ pc = "Failed"
    /\ requests = <<MetricsRequest(env)>>
    /\ Len(chunks) = 2
    /\ stderr = <<LLMURLLine>>

\* The failures that come from the environment's values, not from the
\* network or an endpoint's answer.
ConfigurationErrors == {"VAULT_TOKEN unset", "LLM_TOKEN unset", "url"}

\* C7: with LLM_TOKEN unset no narration request is ever sent and the run
\* cannot end in Done; on the one-chunk and on the two-chunk path alike the
\* first narration call ends the run in Failed with a configuration error,
\* which is the missing token's whenever LLM_URL is usable.
C7_MissingTokenFailsBeforeRequest ==
    env.LLM_TOKEN = "" =>
        /\ Posts = <<>> /\ replies = <<>>
        /\ pc \notin {"Awaiting", "Done"}
        /\ Partitioned => k = 1
        /\ (pc = "Failed" /\ Partitioned) =>
              /\ exitCode = 1
              /\ calls = <<chunks[1]>>
              /\ Reported = 1
              /\ \/ stderr = <<LLMURLLine>>
                 \/ /\ Lines("error")[1].text = ErrorText(1, Len(chunks))
                    /\ Lines("error")[1].args[1].kind \in ConfigurationErrors
              /\ RequestOutcome([env EXCEPT !.LLM_TOKEN = "set"]) = "send" =>
                    /\ stderr = <<>>
                    /\ Lines("error")[1].args = <<Error("LLM_TOKEN unset", 0, "")>>

\* With only LLM_TOKEN unset, a two-chunk run failed at its first narration
\* call with the missing token reported.
C7_Witness ==
    /\ env.LLM_TOKEN = ""
    /\ pc = "Failed"
    /\ Len(chunks) = 2
    /\ requests = <<MetricsRequest(env)>>
    /\ Lines("error") # <<>>
    /\ Lines("error")[1].args = <<Error("LLM_TOKEN unset", 0, "")>>

\* The stages in the order of the run: Start, Fetching, Sanitizing,
\* Partitioning, Narrating[1], its answer awaited, Narrating[2], its answer
\* awaited, then the terminal Done and Failed.
Stage ==
    CASE pc = "Start"        -> 0
      [] pc = "Fetching"     -> 1
      [] pc = "Sanitizing"   -> 2
      [] pc = "Partitioning" -> 3
      [] pc = "Narrating"    -> 2 + 2 * k
      [] pc = "Awaiting"     -> 3 + 2 * k
      [] pc = "Done"         -> 8
      [] pc = "Failed"       -> 9

\* What Done has printed after the progress lines: one unlabeled block for
\* one chunk, a first-half and a second-half block for two.
Emitted ==
    IF Len(chunks) = 1
    THEN <<Printed("header", "LLM Analysis Result:", <<>>),
           Printed("narration", analyses[1], <<>>)>>
    ELSE <<Printed("header", "LLM Analysis Result (First Half):", <<>>),
           Printed("narration", analyses[1], <<>>),
           Printed("header", "\nLLM Analysis Result (Second Half):", <<>>),
           Printed("narration", analyses[2], <<>>)>>

\* In every state: the narrator has been invoked on a prefix of the chunks,
\* one request per chunk in chunk order, each answered before the next is
\* sent; in Done every chunk was narrated once and the narrations are
\* printed last, in chunk order, under their labels.
InOrder ==
    /\ Len(calls) <= Len(chunks)
    /\ calls = SubSeq(chunks, 1, Len(calls))
    /\ Len(Posts) <= Len(calls)
    /\ \A i \in DOMAIN Posts : Posts[i].metrics = chunks[i]
    /\ Len(replies) <= Len(Posts) /\ Len(Posts) <= Len(replies) + 1
    /\ Len(analyses) <= Len(replies)
    /\ pc = "Done" =>
          /\ exitCode = 0
          /\ Len(chunks) \in {1, 2}
          /\ calls = chunks
          /\ Len(Posts) = Len(chunks) /\ Len(replies) = Len(chunks)
          /\ analyses = [i \in 1..Len(chunks) |-> NarrationOf(replies[i]).text]
          /\ Len(stdout) >= Len(Emitted)
          /\ SubSeq(stdout, Len(stdout) - Len(Emitted) + 1, Len(stdout)) = Emitted
          /\ Lines("header") \o Lines("narration")
                = SelectSeq(Emitted, LAMBDA l : l.kind = "header")
                    \o SelectSeq(Emitted, LAMBDA l : l.kind = "narration")

\* C9: the run only moves forward through Start, Fetching, Sanitizing,
\* Partitioning, Narrating[1..k], Done; Done and Failed are terminal and no
\* stage is revisited; the narrator is invoked once per chunk in chunk order,
\* and on success the narrations are printed in chunk order, labeled first
\* half and second half for two chunks and unlabeled for one.
C9_ForwardOnlyInChunkOrder ==
    /\ [][pc \notin {"Done", "Failed"} /\ Stage' > Stage]_vars
    /\ []InOrder

\* A two-chunk run that is Done with two different narrations.
C9_Witness ==
    /\ pc = "Done"
    /\ Len(chunks) = 2
    /\ analyses[1] # analyses[2]
    /\ Len(Posts) = 2

====
